---- MODULE Spec2Model ----
(***************************************************************************)
(* Model of check_once.py: one scheduled invocation ("pass") loads         *)
(* .action_state.json, runs the ETF check, then the fund check, and saves  *)
(* the state.  Time is counted in minutes since the Unix epoch (the code   *)
(* counts seconds; every instant of the model is a whole minute, so        *)
(* FUND_COOLDOWN_MIN * 60 seconds is FUND_COOLDOWN_MIN minutes).           *)
(* Percentages are integers in units of 0.01 %, prices in units of 0.0001. *)
(***************************************************************************)
EXTENDS Integers, Sequences, FiniteSets, TLC

VARIABLES
    cfg,        \* environment of the process: the os.getenv values read at import
    now,        \* the system clock, minutes since the epoch (UTC)
    file,       \* content of STATE_FILE on disk
    pc,         \* position of the invocation inside main()
    st,         \* main()'s local dict `st`
    etf_cn,     \* per pass: the `cn` of etf_intraday_check (wall-clock minutes), 0 if unread
    fund_cn,    \* per pass: the `cn` of fund_intraday_check (wall-clock minutes), 0 if unread
    etf_hits,   \* the `hits` list of etf_intraday_check, then main()'s etf_hits
    fund_hits,  \* the `hits` list of fund_intraday_check, then main()'s fund_hits
    results,    \* per pass: what happened to each instrument evaluated so far
    alerts,     \* per pass: the serverchan_push calls made, in order
    emitted,    \* history: how many Hits were emitted per <<tag, date>>
    run,        \* history: per fund, the length of the current run of qualifying reads
    trace,      \* the calls main() made in the running (or last) invocation, in order
    printed,    \* the last line the ended invocation printed: "DONE" or "ERROR"
    status,     \* exit status of the process of the ended invocation
    arg,        \* the input of a function applied on its own, None otherwise
    ret,        \* its result, None before the application
    peer        \* a second invocation running beside the first: its position,
                \* its local dict `st`, and how many such invocations have run

\* what belongs to the invocations of main()
pass_vars == <<cfg, now, file, pc, st, etf_cn, fund_cn, etf_hits, fund_hits, results,
               alerts, emitted, run, trace, printed, status>>
vars == <<pass_vars, arg, ret, peer>>

----------------------------------------------------------------------------
(* Bounds of the model *)

\* choices explored for FUND_CONFIRM_ROUNDS: 1..MaxRounds
MaxRounds == 2
\* midnights explored: the clock runs from epoch day 1 (1970-01-02, a Friday)
\* to 00:00 of day 1 + MaxNights
MaxNights == 1
\* the clock advances by at most PassMinutes while an invocation is running
PassMinutes == 2

----------------------------------------------------------------------------
(* Python dicts and lists *)

\* Optional[...] values: None, or a value v
None == [some |-> FALSE]
Some(v) == [some |-> TRUE, v |-> v]
EmptyDict == [k \in {} |-> 0]

Get(d, k, default) == IF k \in DOMAIN d THEN d[k] ELSE default
Put(d, k, v) == [x \in DOMAIN d \cup {k} |-> IF x = k THEN v ELSE d[x]]
SetDefault(d, k, v) == IF k \in DOMAIN d THEN d ELSE Put(d, k, v)
Range(s) == {s[i] : i \in DOMAIN s}

\* `sub in name` for strings given as sequences of characters
Contains(name, sub) ==
    \E i \in 0..(Len(name) - Len(sub)) : SubSeq(name, i + 1, i + Len(sub)) = sub

RECURSIVE SumSeq(_)
SumSeq(s) == IF s = <<>> THEN 0 ELSE Head(s) + SumSeq(Tail(s))

----------------------------------------------------------------------------
(* Clock and calendar *)

MinutesPerDay == 24 * 60
UtcOffset == 8 * 60

\* the instants at which the clock is observed, in wall-clock time (Beijing):
\* 10:00 of day 1 (in session), then 23:59 and the following 00:00 of every
\* night explored (out of session, one minute apart)
WallInstants ==
    {MinutesPerDay + 10 * 60}
    \cup {d * MinutesPerDay + 23 * 60 + 59 : d \in 1..MaxNights}
    \cup {(d + 1) * MinutesPerDay : d \in 1..MaxNights}
\* a second schedule, for the trading-time rules: 02:00 and 10:00 of day 1
\* (a Friday), 23:59 of day 1, 10:00 of day 2 (a Saturday)
WeekInstants ==
    {MinutesPerDay + 2 * 60, MinutesPerDay + 10 * 60, MinutesPerDay + 23 * 60 + 59,
     2 * MinutesPerDay + 10 * 60}
\* the instants (UTC) of schedule `sched`
Instants(sched) ==
    {w - UtcOffset : w \in IF sched = "week" THEN WeekInstants ELSE WallInstants}
FirstInstant(sched) == CHOOSE t \in Instants(sched) : \A u \in Instants(sched) : t <= u
Later(sched, t) == {u \in Instants(sched) : u > t}
NextInstant(sched, t) == CHOOSE u \in Later(sched, t) : \A w \in Later(sched, t) : u <= w

\* now_cn(): the wall-clock fields of the datetime returned, in minutes.  They
\* are the same with zoneinfo (n.astimezone(TZ)) and without (n + 8 hours).
now_cn(t) == t + UtcOffset
\* `t = ts if TZ else ts + dt.timedelta(hours=8)`; tz: whether TZ is set
LocalTime(tz, ts) == IF tz THEN ts ELSE ts + UtcOffset
DateOf(wall) == wall \div MinutesPerDay
\* datetime.weekday(): Monday = 0; 1970-01-01 was a Thursday
Weekday(wall) == (DateOf(wall) + 3) % 7
HourMinute(wall) == wall % MinutesPerDay

within_trading_time(intraday_only, tz, ts) ==
    IF ~intraday_only THEN TRUE
    ELSE IF Weekday(LocalTime(tz, ts)) >= 5 THEN FALSE
    ELSE LET hm == HourMinute(LocalTime(tz, ts))
         IN  \/ (9 * 60 + 20 <= hm /\ hm <= 11 * 60 + 35)
             \/ (12 * 60 + 55 <= hm /\ hm <= 15 * 60 + 10)

minutes_since_open(tz, ts) ==
    LET h == HourMinute(LocalTime(tz, ts)) \div 60
        m == HourMinute(LocalTime(tz, ts)) % 60
    IN  IF h < 9 \/ (h = 9 /\ m < 30) THEN 0
        ELSE IF h < 11 \/ (h = 11 /\ m <= 30)
             THEN LET total == (h - 9) * 60 + (m - 30)
                  IN  IF total > 0 THEN total ELSE 0
        ELSE IF h < 13 THEN 120
        ELSE IF h >= 15 THEN 240
        ELSE 120 + (h - 13) * 60 + m

----------------------------------------------------------------------------
(* State file *)

\* STATE_FILE does not exist
Missing == [exists |-> FALSE]
\* STATE_FILE holds the JSON text of value d
FileOf(d) == [exists |-> TRUE, json |-> TRUE, data |-> d]
\* STATE_FILE holds text that json.loads rejects (empty or cut short)
Unparseable == [exists |-> TRUE, json |-> FALSE]
\* a JSON value that is no object, such as the list [] or a number: what
\* json.loads gives for it has no setdefault
NotADict == [nondict |-> TRUE]
IsMapping(v) == "nondict" \notin DOMAIN v

\* the file ignored: every pass starts from the empty state
load_stateBug(f) == EmptyDict
\* json.loads of the file: {} when the file is missing or json.loads raises,
\* otherwise the value parsed, whatever its type.  For what json.dumps
\* wrote: keys are strings, lists stay lists.
load_state(f) ==
    IF f.exists
    THEN IF f.json THEN f.data ELSE EmptyDict
    ELSE EmptyDict
save_state(s) == FileOf(s)

----------------------------------------------------------------------------
(* Configuration *)

FUND_EST_FRESH_SEC == 1500
FUND_COOLDOWN_MIN == 60
ETF_COOLDOWN_MIN == 30
\* DRAW_MIN, DRAW_MAX after the "* 100.0", in units of 0.01 %
DRAW_MIN == -800
DRAW_MAX == -500
\* VOL_MULT in tenths
VOL_MULT == 18
\* REF_HIGH_512810 in units of 0.0001
REF_HIGH == 7270
TOTAL_ASSETS == 100000
\* ETF_SLICE in thousandths
ETF_SLICE == 35

\* names as sequences of characters
NameYongying == <<"yong", "ying", "ke", "ji">>
NameCaitong == <<"cai", "tong", "ji", "cheng">>
NameOther == <<"some", "other", "fund">>

\* FUND_WATCH, its first two entries; bands in units of 0.01 %
FUND_WATCH ==
    [c \in {"022364", "006502"} |->
        IF c = "022364"
        THEN [expect_name |-> NameYongying, pullback_band |-> <<-400, -200>>,
              etf |-> None, fresh_min |-> 25]
        ELSE [expect_name |-> NameCaitong, pullback_band |-> <<-400, -200>>,
              etf |-> Some("sz159995"), fresh_min |-> 25]]
\* FUND_PROXY_MAP when the variable is unset
FUND_PROXY_MAP == EmptyDict
WATCH_ETF == <<"512810">>

\* one key for all funds
FundKeyBug(code) == "fund:"
FundKey(code) == "fund:" \o code
FundTag(code) == "FUND:" \o code \o ":confirm"
EtfKey(code) == "etf:" \o code
EtfTag(code) == "ETF:" \o code \o ":wave"

\* REF_HIGH_<code>: set for 512810 as in the docstring, unset (0) otherwise
RefEnv(code) == IF code = "512810" THEN REF_HIGH ELSE 0

\* An environment of the process.  TZ: whether zoneinfo resolved the zone
\* (TZ is set) or the import failed (TZ is None); SCTKEY: whether a push key
\* is configured; FUND_BUY_RATIO in percent; FUND_CODES is the order of
\* FUND_WATCH's keys, which the source invites to edit; SCHEDULE names the
\* instants at which the scheduler may start a pass.
Environments ==
    [TZ : BOOLEAN, SCTKEY : BOOLEAN,
     INTRADAY_ONLY : BOOLEAN, FUND_INTRADAY : BOOLEAN, ETF_INTRADAY : BOOLEAN,
     FUND_CONFIRM_ROUNDS : 1..MaxRounds, FUND_BUY_RATIO : {10, 20},
     FUND_CODES : {<<"006502">>, <<"022364", "006502">>},
     WATCH_ETF : {WATCH_ETF, WATCH_ETF \o <<"510300">>},
     SCHEDULE : {"nights", "week"}]

\* the environments of Spec: zoneinfo present, no push key, the default buy
\* ratio and ETF list.  The two-fund watch list is explored with
\* INTRADAY_ONLY=1, the one-fund list with both settings.
Configs ==
    {c \in Environments :
        /\ c.TZ /\ ~c.SCTKEY /\ c.FUND_BUY_RATIO = 10
        /\ c.WATCH_ETF = WATCH_ETF /\ c.SCHEDULE = "nights"
        /\ Len(c.FUND_CODES) > 1 => c.INTRADAY_ONLY}

----------------------------------------------------------------------------
(* Quote sources *)

\* what the Sina endpoint can answer: nothing usable, or the parsed fields
SinaAnswers ==
    {None} \cup
    {Some([name |-> <<"etf">>, price |-> pv[1], preclose |-> 7000, high |-> 7270,
           volume_hand |-> pv[2]]) :
        pv \in {<<0, 0>>, <<6900, 0>>, <<6900, 5000>>, <<6980, 5000>>}}
ProxyAnswers ==
    {None} \cup
    {Some([name |-> <<"etf">>, price |-> p, preclose |-> 10000, high |-> 10100,
           volume_hand |-> 100]) : p \in {9880, 10003, 10080}}

\* fetch_sina_quote: None, or the quote with its percent change (0.01 %)
fetch_sina_quote(answer) ==
    IF ~answer.some THEN None
    ELSE LET q == answer.v
             pct == IF q.preclose <= 0 THEN 0
                    ELSE ((q.price - q.preclose) * 10000) \div q.preclose
         IN  Some([name |-> q.name, price |-> q.price, preclose |-> q.preclose,
                   high |-> q.high, volume_hand |-> q.volume_hand, pct |-> pct])

\* what the fund-estimate endpoint can answer for `code` at wall-clock time
\* `wall`: nothing usable, or a name, a percent change and a gztime
FundAnswers(code, wall) ==
    {None, Some([name |-> NameOther, pct |-> -300, gztime |-> Some(wall)])} \cup
    {Some([name |-> FUND_WATCH[code].expect_name \o <<"A">>, pct |-> p, gztime |-> g]) :
        p \in {-300, -100},
        g \in {None, Some(wall), Some(wall - 26)}}

\* fresh_min (minutes) when gztime cannot be parsed: the code's 1e9, scaled
\* down so that fresh_min * 60 stays a TLC integer; it is beyond every limit
FreshUnknown == 10000000

\* fetch_fund_estimate: None, or the estimate with its age in minutes.
\* Without zoneinfo, `now_cn() - t` subtracts a naive datetime from an aware
\* one: the TypeError is swallowed and fresh_min keeps its 1e9.
fetch_fund_estimate(answer, expected_name_substr, tz, wall) ==
    IF ~answer.some THEN None
    ELSE IF ~Contains(answer.v.name, expected_name_substr) THEN None
    ELSE LET fresh == IF tz /\ answer.v.gztime.some
                      THEN wall - answer.v.gztime.v
                      ELSE FreshUnknown
         IN  Some([name |-> answer.v.name, pct |-> answer.v.pct, fresh_min |-> fresh])

----------------------------------------------------------------------------
(* Indicators *)

Min2(a, b) == IF a <= b THEN a ELSE b
Max2(a, b) == IF a >= b THEN a ELSE b
Abs(x) == IF x < 0 THEN -x ELSE x

in_pullback_band(pct, band) ==
    LET low == Min2(band[1], band[2])
        high == Max2(band[1], band[2])
    IN  pct >= low /\ pct <= high

\* the test of a flat fund left out
same_directionBug(fund_pct, etf_pct) ==
    IF ~etf_pct.some THEN TRUE
    ELSE \/ (fund_pct > 0 /\ etf_pct.v > 0)
         \/ (fund_pct < 0 /\ etf_pct.v < 0)
         \/ Abs(etf_pct.v) < 5
\* etf_pct is Optional; 0.05 % is 5 units; abs(fund_pct) < 1e-6 is
\* fund_pct = 0 for a percentage of two decimals
same_direction(fund_pct, etf_pct) ==
    IF ~etf_pct.some THEN TRUE
    ELSE IF fund_pct = 0 THEN TRUE
    ELSE \/ (fund_pct > 0 /\ etf_pct.v > 0)
         \/ (fund_pct < 0 /\ etf_pct.v < 0)
         \/ Abs(etf_pct.v) < 5

\* the freshness test of fund_intraday_check
IsStale(fresh_min, fresh_limit) ==
    fresh_min * 60 > FUND_EST_FRESH_SEC \/ fresh_min > fresh_limit

\* the proxies of a fund: cfg["etf"] put before FUND_PROXY_MAP's list
ProxiesOf(code) ==
    LET listed == Get(FUND_PROXY_MAP, code, <<>>)
        etf == FUND_WATCH[code].etf
    IN  IF etf.some /\ etf.v \notin Range(listed) THEN <<etf.v>> \o listed ELSE listed

\* proxy_pct: the mean of the available proxies' pct, None when there is none
ProxyPct(quotes) ==
    LET pcts == SelectSeq(quotes, LAMBDA q : q.some)
    IN  IF pcts = <<>> THEN None
        ELSE Some(SumSeq([i \in DOMAIN pcts |-> pcts[i].v.pct]) \div Len(pcts))

\* ref_high of etf_intraday_check
RefHigh(ref_env, q) ==
    IF ref_env > 0 THEN ref_env
    ELSE IF q.high > 0 THEN q.high ELSE q.price

\* in_zone: DRAW_MIN <= (price / ref_high - 1) * 100 <= DRAW_MAX, ref_high > 0
InZone(price, ref_high) ==
    LET pullback_x_ref == (price - ref_high) * 10000
    IN  pullback_x_ref >= DRAW_MIN * ref_high /\ pullback_x_ref <= DRAW_MAX * ref_high

\* vol_ok: volume_hand / (avg_per_min * mins) > VOL_MULT with
\* avg_per_min = volume_hand / mins, in exact arithmetic
VolOk(volume_hand, mins) ==
    LET avg_num == volume_hand
        avg_den == mins
        denom_num == avg_num * mins
        denom_den == avg_den
    IN  /\ avg_num > 0
        /\ volume_hand * denom_den * 10 > VOL_MULT * denom_num

----------------------------------------------------------------------------
(* The signal state machine *)

\* the cooldown test left out
InCooldownBug(t, cooldown, key) == FALSE
\* time.time() < cooldown.get(key, 0)
InCooldown(t, cooldown, key) == t < Get(cooldown, key, 0)
\* the deadline taken from the time of day instead of the epoch clock
CooldownUntilBug(t, minutes) == HourMinute(now_cn(t)) + minutes
\* time.time() + FUND_COOLDOWN_MIN * 60, resp. ETF_COOLDOWN_MIN * 60
CooldownUntil(t, minutes) == t + minutes
\* trig_pb and ok_dir
FundQualifies(trig_pb, ok_dir) == trig_pb /\ ok_dir
\* a first qualifying read taken as confirmation
ConfirmedBug(cnt, rounds) == cnt >= 1
\* one qualifying read more than configured
ConfirmedOffByOne(cnt, rounds) == cnt > rounds
\* node["cnt"] >= FUND_CONFIRM_ROUNDS
Confirmed(cnt, rounds) == cnt >= rounds
\* the per-date dedup left out
NotFiredTodayBug(tag, fired_today) == TRUE
\* tag not in fired_today
NotFiredToday(tag, fired_today) == tag \notin Range(fired_today)
\* the count kept after confirmation
CountAfterFireBug(cnt) == cnt
\* node["cnt"] = 0 once the count is confirmed
CountAfterFire(cnt) == 0
\* the count kept on a read that does not qualify
CountAfterMissBug(cnt) == cnt
\* pending[key]["cnt"] = 0 on a read that does not qualify
CountAfterMiss(cnt) == 0
\* `break` on a failed fetch: the rest of the list is not evaluated
FundContinueBug(i, branch, n) ==
    IF branch = "no_est_or_name_mismatch" THEN n + 1 ELSE i + 1
\* `continue`: the loop goes on with the next of its n entries
FundContinue(i, branch, n) == i + 1

\* confirmCount as persisted: pending[key]["cnt"], 0 when the key is absent
CountOf(s, key) == Get(Get(s, "fund_pending", EmptyDict), key, [cnt |-> 0]).cnt
\* cooldownUntil as persisted, 0 when absent
FundCooldownOf(s, key) == Get(Get(s, "fund_cooldown", EmptyDict), key, 0)
EtfCooldownOf(s, key) == Get(Get(s, "etf_cooldown", EmptyDict), key, 0)
\* the fired list of a date, empty when absent
FiredOn(s, date) == Get(Get(s, "fired", EmptyDict), date, <<>>)

\* the three setdefault calls that open fund_intraday_check
FundSetDefaults(s, date) ==
    LET s1 == SetDefault(s, "fund_pending", EmptyDict)
        s2 == SetDefault(s1, "fund_cooldown", EmptyDict)
        s3 == SetDefault(s2, "fired", EmptyDict)
    IN  Put(s3, "fired", SetDefault(s3["fired"], date, <<>>))

\* the two setdefault calls that open etf_intraday_check
EtfSetDefaults(s, date) ==
    LET s1 == SetDefault(s, "etf_cooldown", EmptyDict)
        s2 == SetDefault(s1, "fired", EmptyDict)
    IN  Put(s2, "fired", SetDefault(s2["fired"], date, <<>>))

SetCount(s, key, n) == Put(s, "fund_pending", Put(s["fund_pending"], key, [cnt |-> n]))
AppendFired(s, date, tag) ==
    Put(s, "fired", Put(s["fired"], date, Append(s["fired"][date], tag)))
SetCooldown(s, dict, key, until) == Put(s, dict, Put(s[dict], key, until))

\* One iteration of the for-loop of fund_intraday_check for `code`.
\* est: the Optional estimate; proxy_pct: Optional mean proxy change;
\* t1, t2: the two readings of time.time().  Gives the new state dict, the
\* branch taken, whether the read qualified, and whether a Hit was appended.
FundEvaluate(s, date, code, est, proxy_pct, t1, t2, rounds) ==
    LET key == FundKey(code)
        tag == FundTag(code)
        w == FUND_WATCH[code]
        cnt0 == CountOf(s, key)
        out(s2, branch, qual, hit) ==
            [st |-> s2, branch |-> branch, qual |-> qual, hit |-> hit]
    IN  IF ~est.some THEN out(s, "no_est_or_name_mismatch", "na", FALSE)
        ELSE IF IsStale(est.v.fresh_min, w.fresh_min) THEN out(s, "stale", "na", FALSE)
        ELSE
          LET trig_pb == in_pullback_band(est.v.pct, w.pullback_band)
              ok_dir == same_direction(est.v.pct, proxy_pct)
              qual == IF FundQualifies(trig_pb, ok_dir) THEN "yes" ELSE "no"
          IN  IF InCooldown(t1, s["fund_cooldown"], key) THEN out(s, "cooldown", qual, FALSE)
              ELSE IF qual = "yes"
              THEN LET cnt == cnt0 + 1
                   IN  IF Confirmed(cnt, rounds)
                       THEN IF NotFiredToday(tag, s["fired"][date])
                            THEN out(SetCount(
                                       SetCooldown(AppendFired(s, date, tag),
                                                   "fund_cooldown", key,
                                                   CooldownUntil(t2, FUND_COOLDOWN_MIN)),
                                       key, CountAfterFire(cnt)),
                                     "hit", qual, TRUE)
                            ELSE out(SetCount(s, key, CountAfterFire(cnt)),
                                     "suppressed", qual, FALSE)
                       ELSE out(SetCount(s, key, cnt), "confirming", qual, FALSE)
              ELSE out(SetCount(s, key, CountAfterMiss(cnt0)), "nohit", qual, FALSE)

\* One iteration of the for-loop of etf_intraday_check for `code`.
EtfEvaluate(s, date, tz, wall, code, q, t1, t2) ==
    LET key == EtfKey(code)
        tag == EtfTag(code)
        out(s2, branch, qual, hit) ==
            [st |-> s2, branch |-> branch, qual |-> qual, hit |-> hit]
    IN  IF ~q.some \/ (q.some /\ (q.v.price <= 0 \/ q.v.preclose <= 0))
        THEN out(s, "quote_missing", "na", FALSE)
        ELSE
          LET ref_high == RefHigh(RefEnv(code), q.v)
              in_zone == InZone(q.v.price, ref_high)
              m == minutes_since_open(tz, wall)
              mins == IF m > 1 THEN m ELSE 1
              vol_ok == VolOk(q.v.volume_hand, mins)
              qual == IF in_zone \/ vol_ok THEN "yes" ELSE "no"
          IN  IF InCooldown(t1, s["etf_cooldown"], key) THEN out(s, "cooldown", qual, FALSE)
              ELSE IF qual = "yes"
              THEN IF NotFiredToday(tag, s["fired"][date])
                   THEN out(SetCooldown(AppendFired(s, date, tag), "etf_cooldown", key,
                                        CooldownUntil(t2, ETF_COOLDOWN_MIN)),
                            "hit", qual, TRUE)
                   ELSE out(s, "suppressed", qual, FALSE)
              ELSE out(s, "nohit", qual, FALSE)

\* the slice left out of the product
EtfBuyAmountBug == (TOTAL_ASSETS * 10) \div 100
\* buy_amt of an ETF Hit: TOTAL_ASSETS * 0.10 * ETF_SLICE
EtfBuyAmount == (TOTAL_ASSETS * 10 * ETF_SLICE) \div (100 * 1000)
\* per_buy of the fund Hits of one pass: TOTAL_ASSETS * 0.10 / max(1, len(hits))
FundPerBuy(n) == ((TOTAL_ASSETS * 10) \div 100) \div (IF n > 1 THEN n ELSE 1)

Count(e, tag, date) == Get(e, <<tag, date>>, 0)
Emit(e, tag, date) == Put(e, <<tag, date>>, Count(e, tag, date) + 1)

----------------------------------------------------------------------------
(* The two checks of a pass.  All clock readings of one check return the    *)
(* same instant; the clock advances between the steps of main().            *)

\* The run of a fund: the number of qualifying reads evaluated in a row, a
\* failed fetch or a name mismatch being ignored.  RunAt is its length at the
\* read just evaluated, NextRun what the next read continues from: a read
\* that fires or is suppressed ends the run.
RunAt(n, branch) ==
    IF branch = "no_est_or_name_mismatch" THEN n
    ELSE IF branch \in {"confirming", "hit", "suppressed"} THEN n + 1
    ELSE 0
NextRun(n, branch) ==
    IF branch \in {"hit", "suppressed"} THEN 0 ELSE RunAt(n, branch)

\* serverchan_push: without SCTKEY the alert is only printed; with it the
\* POST is made once, and `post` tells whether it went through ("sent") or
\* raised ("lost"): the exception is swallowed
PostOutcomes(sctkey) == IF sctkey THEN {"sent", "lost"} ELSE {"printed"}
serverchan_push(sctkey, post) == IF sctkey THEN post ELSE "printed"
\* a lost POST raising out of serverchan_push
PushRaisesBug(sctkey, post) == sctkey /\ post = "lost"
\* whether serverchan_push raises: `except Exception: pass` around the POST
PushRaises(sctkey, post) == FALSE

\* the locals of etf_intraday_check after one iteration with outcome r;
\* acc = [st, hits, results, alerts, emitted, raised].  The push comes
\* before the tag, the cooldown and the hit are recorded: were it to raise,
\* the function would be left with none of them done.
EtfAfter(acc, code, date, r, sctkey, post) ==
    IF r.hit /\ PushRaises(sctkey, post)
    THEN [acc EXCEPT !.raised = TRUE,
                     !.alerts = Append(acc.alerts, [kind |-> "etf", codes |-> <<code>>,
                                                    amount |-> EtfBuyAmount,
                                                    post |-> serverchan_push(sctkey, post)])]
    ELSE
    [st |-> r.st,
     hits |-> IF r.hit THEN Append(acc.hits, code) ELSE acc.hits,
     results |-> Put(acc.results, EtfKey(code), [branch |-> r.branch, qual |-> r.qual]),
     alerts |-> IF r.hit
                THEN Append(acc.alerts, [kind |-> "etf", codes |-> <<code>>,
                                         amount |-> EtfBuyAmount,
                                         post |-> serverchan_push(sctkey, post)])
                ELSE acc.alerts,
     emitted |-> IF r.hit THEN Emit(acc.emitted, EtfTag(code), date) ELSE acc.emitted,
     raised |-> FALSE]

\* the for-loop of etf_intraday_check from position i on
RECURSIVE EtfLoop(_, _, _, _, _, _, _, _, _)
EtfLoop(i, acc, codes, answers, tz, wall, t, sctkey, posts) ==
    IF i > Len(codes) \/ acc.raised THEN acc
    ELSE EtfLoop(i + 1,
                 EtfAfter(acc, codes[i], DateOf(wall),
                          EtfEvaluate(acc.st, DateOf(wall), tz, wall, codes[i],
                                      fetch_sina_quote(answers[i]), t, t),
                          sctkey, posts[i]),
                 codes, answers, tz, wall, t, sctkey, posts)

\* the locals of fund_intraday_check after one iteration with outcome r;
\* acc = [st, hits, results, emitted, run]
FundAfter(acc, code, date, r) ==
    [st |-> r.st,
     hits |-> IF r.hit THEN Append(acc.hits, code) ELSE acc.hits,
     results |-> Put(acc.results, FundKey(code),
                     [branch |-> r.branch, qual |-> r.qual,
                      run |-> RunAt(Get(acc.run, FundKey(code), 0), r.branch)]),
     emitted |-> IF r.hit THEN Emit(acc.emitted, FundTag(code), date) ELSE acc.emitted,
     run |-> Put(acc.run, FundKey(code), NextRun(Get(acc.run, FundKey(code), 0), r.branch))]

\* whether the iteration for `code` ends at the first `continue`
FundBranch(code, answer, tz, wall) ==
    IF fetch_fund_estimate(answer, FUND_WATCH[code].expect_name, tz, wall).some
    THEN "est" ELSE "no_est_or_name_mismatch"

\* the for-loop of fund_intraday_check from position i on
RECURSIVE FundLoop(_, _, _, _, _, _, _, _, _)
FundLoop(i, acc, codes, answers, quotes, tz, wall, t, rounds) ==
    IF i > Len(codes) THEN acc
    ELSE FundLoop(FundContinue(i, FundBranch(codes[i], answers[i], tz, wall), Len(codes)),
                  FundAfter(acc, codes[i], DateOf(wall),
                            FundEvaluate(acc.st, DateOf(wall), codes[i],
                                         fetch_fund_estimate(answers[i],
                                             FUND_WATCH[codes[i]].expect_name, tz, wall),
                                         ProxyPct([j \in DOMAIN quotes[i] |->
                                                      fetch_sina_quote(quotes[i][j])]),
                                         t, t, rounds)),
                  codes, answers, quotes, tz, wall, t, rounds)

\* the quotes of the proxies of each fund of `codes`
ProxyQuoteChoices(codes) ==
    {q \in [DOMAIN codes -> UNION {[1..n -> ProxyAnswers] : n \in 0..1}] :
        \A i \in DOMAIN codes : Len(q[i]) = Len(ProxiesOf(codes[i]))}

----------------------------------------------------------------------------
(* One invocation of main(), step by step *)

\* the state before the first invocation, in environment c
InitPass(c) ==
    /\ cfg = c
    /\ now = FirstInstant(c.SCHEDULE)
    /\ file = Missing
    /\ pc = "idle"
    /\ st = EmptyDict
    /\ etf_cn = 0
    /\ fund_cn = 0
    /\ etf_hits = <<>>
    /\ fund_hits = <<>>
    /\ results = EmptyDict
    /\ alerts = <<>>
    /\ emitted = EmptyDict
    /\ run = EmptyDict
    /\ trace = <<>>
    /\ printed = ""
    /\ status = 0
\* no second invocation
PeerIdle == [pc |-> "idle", st |-> EmptyDict, ran |-> 0]
InitIn(c) == InitPass(c) /\ arg = None /\ ret = None /\ peer = PeerIdle

Init == \E c \in Configs : InitIn(c)

\* the clock advances: freely between invocations, by at most PassMinutes
\* between two steps of a running one
Tick ==
    /\ Later(cfg.SCHEDULE, now) # {}
    /\ pc = "idle" \/ NextInstant(cfg.SCHEDULE, now) - now <= PassMinutes
    /\ now' = NextInstant(cfg.SCHEDULE, now)
    /\ UNCHANGED <<cfg, file, pc, st, etf_cn, fund_cn, etf_hits, fund_hits, results,
                   alerts, emitted, run, trace, printed, status, arg, ret, peer>>

\* main(): st = load_state()
Load ==
    /\ pc = "idle"
    /\ st' = load_state(file)
    /\ pc' = "etf"
    /\ trace' = <<"load_state">>
    /\ UNCHANGED <<cfg, now, file, etf_cn, fund_cn, etf_hits, fund_hits, results,
                   alerts, emitted, run, printed, status, arg, ret, peer>>

\* main(): etf_hits = etf_intraday_check(st).  On a loaded value that is no
\* dict, state.setdefault raises AttributeError and main() is left.
EtfCheck ==
    /\ pc = "etf"
    /\ trace' = Append(trace, "etf_intraday_check")
    /\ LET wall == now_cn(now)
       IN  IF ~cfg.ETF_INTRADAY \/ ~within_trading_time(cfg.INTRADAY_ONLY, cfg.TZ, wall)
           THEN /\ etf_cn' = IF cfg.ETF_INTRADAY THEN wall ELSE etf_cn
                /\ pc' = "fund"
                /\ UNCHANGED <<st, etf_hits, results, alerts, emitted>>
           ELSE IF ~IsMapping(st)
           THEN /\ etf_cn' = wall
                /\ pc' = "raised"
                /\ UNCHANGED <<st, etf_hits, results, alerts, emitted>>
           ELSE \E answers \in [DOMAIN cfg.WATCH_ETF -> SinaAnswers],
                   posts \in [DOMAIN cfg.WATCH_ETF -> PostOutcomes(cfg.SCTKEY)] :
                  \E acc \in {EtfLoop(1, [st |-> EtfSetDefaults(st, DateOf(wall)),
                                         hits |-> <<>>, results |-> results,
                                         alerts |-> alerts, emitted |-> emitted,
                                         raised |-> FALSE],
                                     cfg.WATCH_ETF, answers, cfg.TZ, wall, now,
                                     cfg.SCTKEY, posts)} :
                      /\ st' = acc.st
                      /\ etf_cn' = wall
                      /\ pc' = IF acc.raised THEN "raised" ELSE "fund"
                      /\ etf_hits' = acc.hits
                      /\ results' = acc.results
                      /\ alerts' = acc.alerts
                      /\ emitted' = acc.emitted
    /\ UNCHANGED <<cfg, now, file, fund_cn, fund_hits, run, printed, status, arg, ret, peer>>

\* main(): fund_hits = fund_intraday_check(st)
FundCheck ==
    /\ pc = "fund"
    /\ trace' = Append(trace, "fund_intraday_check")
    /\ LET wall == now_cn(now)
           codes == cfg.FUND_CODES
       IN  IF ~cfg.FUND_INTRADAY \/ ~within_trading_time(cfg.INTRADAY_ONLY, cfg.TZ, wall)
           THEN /\ fund_cn' = IF cfg.FUND_INTRADAY THEN wall ELSE fund_cn
                /\ pc' = "save"
                /\ UNCHANGED <<st, fund_hits, results, alerts, emitted, run>>
           ELSE IF ~IsMapping(st)
           THEN /\ fund_cn' = wall
                /\ pc' = "raised"
                /\ UNCHANGED <<st, fund_hits, results, alerts, emitted, run>>
           ELSE \E answers \in [DOMAIN codes -> UNION {FundAnswers(c, wall) : c \in Range(codes)}],
                   quotes \in ProxyQuoteChoices(codes),
                   post \in PostOutcomes(cfg.SCTKEY) :
                  /\ \A i \in DOMAIN codes : answers[i] \in FundAnswers(codes[i], wall)
                  /\ \E acc \in {FundLoop(1, [st |-> FundSetDefaults(st, DateOf(wall)),
                                             hits |-> <<>>, results |-> results,
                                             emitted |-> emitted, run |-> run],
                                         codes, answers, quotes, cfg.TZ, wall, now,
                                         cfg.FUND_CONFIRM_ROUNDS)} :
                         /\ st' = acc.st
                         /\ fund_cn' = wall
                         /\ pc' = IF acc.hits # <<>> /\ PushRaises(cfg.SCTKEY, post)
                                  THEN "raised" ELSE "save"
                         /\ fund_hits' = acc.hits
                         /\ results' = acc.results
                         /\ emitted' = acc.emitted
                         /\ run' = acc.run
                         /\ alerts' = IF acc.hits # <<>>
                                      THEN Append(alerts,
                                                  [kind |-> "fund", codes |-> acc.hits,
                                                   amount |-> FundPerBuy(Len(acc.hits)),
                                                   post |-> serverchan_push(cfg.SCTKEY, post)])
                                      ELSE alerts
    /\ UNCHANGED <<cfg, now, file, etf_cn, etf_hits, printed, status, arg, ret, peer>>

\* the locals of main() die when the invocation ends
EndOfPass ==
    /\ pc' = "idle"
    /\ st' = EmptyDict
    /\ etf_cn' = 0
    /\ fund_cn' = 0
    /\ etf_hits' = <<>>
    /\ fund_hits' = <<>>
    /\ results' = EmptyDict
    /\ alerts' = <<>>

\* main(): save_state(st), the summary line, and the return; the process
\* ends with status 0
Save ==
    /\ pc = "save"
    /\ file' = save_state(st)
    /\ trace' = Append(trace, "save_state")
    /\ printed' = "DONE"
    /\ status' = 0
    /\ EndOfPass
    /\ UNCHANGED <<cfg, now, emitted, run, arg, ret, peer>>

Next ==
    \/ Tick
    \/ Load
    \/ EtfCheck
    \/ FundCheck
    \/ Save

\* Spec: the disk and the state file behave, so that no call of main() raises
Spec == Init /\ [][Next]_vars

----------------------------------------------------------------------------
(* Vocabulary of the properties.  While a pass runs, `file` still holds the *)
(* state the pass loaded and `st` the state it is about to save.            *)

Pre == load_state(file)

Instruments ==
    {[kind |-> "fund", code |-> c] : c \in Range(cfg.FUND_CODES)}
    \cup {[kind |-> "etf", code |-> c] : c \in Range(cfg.WATCH_ETF)}
Funds == {i \in Instruments : i.kind = "fund"}

KeyOf(i) == IF i.kind = "fund" THEN FundKey(i.code) ELSE EtfKey(i.code)
TagOf(i) == IF i.kind = "fund" THEN FundTag(i.code) ELSE EtfTag(i.code)
\* the instrument went through its check's loop in the running pass
Evaluated(i) == KeyOf(i) \in DOMAIN results
Outcome(i) == results[KeyOf(i)]
\* the wall-clock time and the time.time() of the check that evaluated i
CnOf(i) == IF i.kind = "fund" THEN fund_cn ELSE etf_cn
EvalTime(i) == CnOf(i) - UtcOffset
Today(i) == DateOf(CnOf(i))
\* the Hits of the running pass for i
HitCount(i) ==
    LET hs == IF i.kind = "fund" THEN fund_hits ELSE etf_hits
    IN  Cardinality({j \in DOMAIN hs : hs[j] = i.code})
\* confirmCount, cooldownUntil and fired dates of i in state dict s
\* (an ETF keeps no count)
CountOfI(s, i) == IF i.kind = "fund" THEN CountOf(s, KeyOf(i)) ELSE 0
CooldownOfI(s, i) ==
    IF i.kind = "fund" THEN FundCooldownOf(s, KeyOf(i)) ELSE EtfCooldownOf(s, KeyOf(i))
FiredDates(s, i) ==
    {d \in DOMAIN Get(s, "fired", EmptyDict) : TagOf(i) \in Range(s["fired"][d])}
Untouched(i) ==
    /\ CountOfI(st, i) = CountOfI(Pre, i)
    /\ CooldownOfI(st, i) = CooldownOfI(Pre, i)
    /\ FiredDates(st, i) = FiredDates(Pre, i)
CooldownDuration(i) == IF i.kind = "fund" THEN FUND_COOLDOWN_MIN ELSE ETF_COOLDOWN_MIN

\* the read of i qualified, outside any cooldown
QualifiedRead(i) ==
    /\ Evaluated(i)
    /\ Outcome(i).qual = "yes"
    /\ EvalTime(i) >= CooldownOfI(Pre, i)

----------------------------------------------------------------------------
(* C1: over any sequence of non-overlapping passes, at most one Hit is      *)
(* emitted per (instrument, calendar date).                                 *)
C1_AtMostOneHitPerDate == \A k \in DOMAIN emitted : emitted[k] <= 1

\* a read qualifies again on a date that already has its Hit, the cooldown
\* having expired, and no second Hit is emitted
C1_Witness ==
    \E i \in Instruments :
        /\ QualifiedRead(i)
        /\ CooldownOfI(Pre, i) > 0
        /\ Today(i) \in FiredDates(Pre, i)
        /\ HitCount(i) = 0
        /\ Count(emitted, TagOf(i), Today(i)) = 1

----------------------------------------------------------------------------
----------------------------------------------------------------------------
(* C3: a fund Hit is emitted only at the end of a run of                    *)
(* FUND_CONFIRM_ROUNDS qualifying reads of the fund, with no non-qualifying *)
(* and no stale read in between, failed fetches and name mismatches ignored. *)
C3_HitEndsFullRun ==
    \A i \in Funds :
        (Evaluated(i) /\ HitCount(i) > 0) => Outcome(i).run >= cfg.FUND_CONFIRM_ROUNDS

----------------------------------------------------------------------------
(* C4: after a pass in which a fund's read did not qualify or was discarded *)
(* as stale, the fund's confirmCount is 0.                                  *)
C4_MissOrStaleResets ==
    \A i \in Funds :
        (Evaluated(i) /\ (Outcome(i).branch = "stale" \/ Outcome(i).qual = "no"))
            => CountOfI(st, i) = 0

----------------------------------------------------------------------------
\* the confirmCount of fund i reaches the threshold in the running pass
ReachesThreshold(i) ==
    /\ QualifiedRead(i)
    /\ CountOfI(Pre, i) + 1 >= cfg.FUND_CONFIRM_ROUNDS

(* C5 as claimed: when a fund's count reaches the threshold on a date it    *)
(* already fired, the Hit is suppressed, the count is reset to 0, and       *)
(* cooldownUntil is set to now + cooldownDuration.                          *)
C5_SuppressedStillCoolsDown ==
    \A i \in Funds :
        (ReachesThreshold(i) /\ Today(i) \in FiredDates(Pre, i)) =>
            /\ HitCount(i) = 0
            /\ CountOfI(st, i) = 0
            /\ CooldownOfI(st, i) = EvalTime(i) + FUND_COOLDOWN_MIN

(* C5 amended: when a fund's count reaches the threshold on a date it       *)
(* already fired, the Hit is suppressed and the count is reset to 0, and    *)
(* cooldownUntil keeps the value it had.                                    *)
C5_SuppressedKeepsCooldown ==
    \A i \in Funds :
        (ReachesThreshold(i) /\ Today(i) \in FiredDates(Pre, i)) =>
            /\ HitCount(i) = 0
            /\ CountOfI(st, i) = 0
            /\ CooldownOfI(st, i) = CooldownOfI(Pre, i)
            /\ FiredDates(st, i) = FiredDates(Pre, i)

C5_Witness ==
    \E i \in Funds :
        /\ ReachesThreshold(i)
        /\ Today(i) \in FiredDates(Pre, i)
        /\ CountOfI(Pre, i) > 0
        /\ CountOfI(st, i) = 0
        /\ CooldownOfI(st, i) < EvalTime(i)

----------------------------------------------------------------------------
(* C6: no step ever stores, for any instrument, a cooldownUntil smaller     *)
(* than the one persisted before.                                           *)
C6_CooldownMonotone ==
    [][\A i \in Instruments :
          CooldownOfI(load_state(file'), i) >= CooldownOfI(load_state(file), i)]_vars

\* a pass is about to store a cooldownUntil later than an earlier, nonzero one
C6_Witness ==
    \E i \in Instruments :
        /\ pc = "save"
        /\ CooldownOfI(Pre, i) > 0
        /\ CooldownOfI(st, i) > CooldownOfI(Pre, i)

----------------------------------------------------------------------------
(* C7: each fund's confirmCount, as persisted and as about to be saved, is  *)
(* between 0 and FUND_CONFIRM_ROUNDS, and it is 0 after a pass in which the *)
(* fund's Hit fired or its read did not qualify.                            *)
C7_CountBounded ==
    /\ \A i \in Funds :
          /\ CountOfI(Pre, i) \in 0..cfg.FUND_CONFIRM_ROUNDS
          /\ CountOfI(st, i) \in 0..cfg.FUND_CONFIRM_ROUNDS
    /\ \A i \in Funds :
          (Evaluated(i) /\ (HitCount(i) > 0 \/ Outcome(i).qual = "no"))
              => CountOfI(st, i) = 0

\* a read that does not qualify clears a count that was not 0
C7_Witness ==
    \E i \in Funds :
        /\ Evaluated(i)
        /\ Outcome(i).qual = "no"
        /\ CountOfI(Pre, i) > 0
        /\ CountOfI(st, i) = 0

----------------------------------------------------------------------------
\* the checks of the running pass that entered their loop
EtfLoopRan ==
    cfg.ETF_INTRADAY /\ etf_cn # 0 /\ within_trading_time(cfg.INTRADAY_ONLY, cfg.TZ, etf_cn)
FundLoopRan ==
    cfg.FUND_INTRADAY /\ fund_cn # 0 /\ within_trading_time(cfg.INTRADAY_ONLY, cfg.TZ, fund_cn)
FetchFailed(i) ==
    Evaluated(i) /\ Outcome(i).branch \in {"no_est_or_name_mismatch", "quote_missing"}

(* C8: when the fetch for an instrument fails or the name does not match,   *)
(* no indicator is computed and no Hit emitted for it, its state is left    *)
(* unchanged, and every other instrument of the batch is still evaluated.   *)
C8_FetchFailureSkipsOnlyThatInstrument ==
    /\ \A i \in Instruments :
          FetchFailed(i) => (Outcome(i).qual = "na" /\ HitCount(i) = 0 /\ Untouched(i))
    /\ (pc \in {"fund", "save"} /\ EtfLoopRan) =>
          \A i \in Instruments \ Funds : Evaluated(i)
    /\ (pc = "save" /\ FundLoopRan) => \A i \in Funds : Evaluated(i)

\* the ETF quote and the first fund's estimate fail, the second fund is
\* evaluated and moves on
C8_Witness ==
    /\ pc = "save"
    /\ Len(cfg.FUND_CODES) = 2
    /\ \A i \in Instruments \ Funds : FetchFailed(i)
    /\ FetchFailed([kind |-> "fund", code |-> cfg.FUND_CODES[1]])
    /\ LET j == [kind |-> "fund", code |-> cfg.FUND_CODES[2]]
       IN  Evaluated(j) /\ HitCount(j) = 1 /\ CountOfI(Pre, j) > 0

----------------------------------------------------------------------------
(* C9: an instrument evaluated while now < cooldownUntil gets no Hit and    *)
(* keeps its confirmCount, cooldownUntil and fired tags.                    *)
C9_CooldownFreezes ==
    \A i \in Instruments :
        (Evaluated(i) /\ EvalTime(i) < CooldownOfI(Pre, i))
            => (HitCount(i) = 0 /\ Untouched(i))

\* a fund and an ETF are both read as qualifying during their cooldown
C9_Witness ==
    /\ \E i \in Funds :
          Evaluated(i) /\ EvalTime(i) < CooldownOfI(Pre, i) /\ Outcome(i).qual = "yes"
    /\ \E i \in Instruments \ Funds :
          Evaluated(i) /\ EvalTime(i) < CooldownOfI(Pre, i) /\ Outcome(i).qual = "yes"

----------------------------------------------------------------------------
(* C10: with FUND_CONFIRM_ROUNDS = 2, outside cooldown and on a date not    *)
(* yet fired, a qualifying read of a fund whose count is 0 leaves the count *)
(* at 1 without a Hit, and a qualifying read of a fund whose count is 1     *)
(* emits exactly one Hit, resets the count, sets cooldownUntil to now +     *)
(* FUND_COOLDOWN_MIN and records the fired tag under today's date.          *)
C10_TwoPassConfirmation ==
    cfg.FUND_CONFIRM_ROUNDS = 2 =>
        \A i \in Funds :
            (QualifiedRead(i) /\ Today(i) \notin FiredDates(Pre, i)) =>
                /\ CountOfI(Pre, i) = 0 =>
                      /\ CountOfI(st, i) = 1
                      /\ HitCount(i) = 0
                      /\ CooldownOfI(st, i) = CooldownOfI(Pre, i)
                      /\ FiredDates(st, i) = FiredDates(Pre, i)
                /\ CountOfI(Pre, i) = 1 =>
                      /\ HitCount(i) = 1
                      /\ CountOfI(st, i) = 0
                      /\ CooldownOfI(st, i) = EvalTime(i) + FUND_COOLDOWN_MIN
                      /\ FiredDates(st, i) = FiredDates(Pre, i) \cup {Today(i)}
                      /\ Count(emitted, TagOf(i), Today(i)) = 1

\* the second qualifying pass: the count loaded is 1 and the Hit is emitted
C10_Witness ==
    /\ cfg.FUND_CONFIRM_ROUNDS = 2
    /\ \E i \in Funds :
          /\ QualifiedRead(i)
          /\ Today(i) \notin FiredDates(Pre, i)
          /\ CountOfI(Pre, i) = 1
          /\ HitCount(i) = 1
          /\ CountOfI(st, i) = 0

----------------------------------------------------------------------------
(* Sizing of the suggested amounts.  SpecAlloc: both funds and two ETFs are *)
(* watched, one qualifying read confirms, and FUND_BUY_RATIO is left at its *)
(* default or set to 0.20.                                                  *)
AllocConfigs ==
    {c \in Environments :
        /\ c.TZ /\ ~c.SCTKEY /\ c.SCHEDULE = "week"
        /\ c.INTRADAY_ONLY /\ c.FUND_INTRADAY /\ c.ETF_INTRADAY
        /\ c.FUND_CONFIRM_ROUNDS = 1
        /\ Len(c.FUND_CODES) = 2 /\ Len(c.WATCH_ETF) = 2}
InitAlloc == \E c \in AllocConfigs : InitIn(c)
SpecAlloc == InitAlloc /\ [][Next]_vars

\* the alerts of the running pass of one kind
AlertsOf(kind) == {j \in DOMAIN alerts : alerts[j].kind = kind}

(* C11: when k >= 1 fund Hits occur in one pass, each one's suggested       *)
(* amount is TOTAL_ASSETS x FUND_BUY_RATIO / k.                             *)
C11_FundAmountUsesBuyRatio ==
    \A j \in AlertsOf("fund") :
        alerts[j].amount * Len(alerts[j].codes) * 100 = TOTAL_ASSETS * cfg.FUND_BUY_RATIO

(* C12: every ETF Hit's suggested amount is TOTAL_ASSETS x 10 % x ETF_SLICE, *)
(* whatever the number of ETF Hits and fund Hits of the pass.               *)
C12_EtfAmountNeverSplit ==
    \A j \in AlertsOf("etf") :
        alerts[j].amount * 100 * 1000 = TOTAL_ASSETS * 10 * ETF_SLICE

\* two ETF Hits and two fund Hits in one pass
C12_Witness ==
    /\ pc = "save"
    /\ Cardinality(AlertsOf("etf")) = 2
    /\ \E j \in AlertsOf("fund") : Len(alerts[j].codes) = 2
    /\ \A j \in AlertsOf("etf") : alerts[j].amount = 350

----------------------------------------------------------------------------
(* Functions applied on their own.  SpecFunctions draws one input and       *)
(* applies the function to it.                                              *)

\* 09:45, 10:00 and 10:30 of day 1; cumulative volumes; a price inside and a
\* price outside the pullback zone of REF_HIGH
EtfReadArgs ==
    [fn : {"etf_read"}, tz : {TRUE},
     ts : {MinutesPerDay + 9 * 60 + 45, MinutesPerDay + 10 * 60, MinutesPerDay + 10 * 60 + 30},
     price : {6900, 6980}, volume_hand : {0, 100000, 500000}]
\* every minute of day 1, with and without zoneinfo
ClockArgs ==
    [fn : {"minutes_since_open"}, tz : BOOLEAN,
     ts : {MinutesPerDay + hm : hm \in 0..(MinutesPerDay - 1)}]

\* every minute of day 1 (a Friday) and day 2 (a Saturday), with and
\* without zoneinfo, INTRADAY_ONLY set
TradingArgs ==
    [fn : {"within_trading_time"}, intraday_only : {TRUE}, tz : BOOLEAN,
     ts : {MinutesPerDay + m : m \in 0..(2 * MinutesPerDay - 1)}]
\* an estimate of fund 006502 read at 10:00 of day 1: its gszzl (pct), its
\* value gsz and the highest value of the session (units of 0.0001), the
\* age of its gztime in minutes (None: a gztime that strptime rejects), and
\* the quote of its proxy
FundReadArgs ==
    [fn : {"fund_read"}, tz : BOOLEAN,
     pct : {-400, -300, -199, 0}, gsz : {9700, 10000}, high : {10000},
     age : {None, Some(0), Some(25), Some(26)},
     quotes : {<<None>>, <<Some([pct |-> 120])>>}]
\* the quotes of up to two proxies, as fetch_sina_quote returns them
ProxyQuoteLists ==
    LET qs == {None} \cup {Some([pct |-> p]) : p \in {-120, -4, 4, 120}}
    IN  {<<>>} \cup {<<q>> : q \in qs} \cup {<<q1, q2>> : q1 \in qs, q2 \in qs}
DirectionArgs ==
    [fn : {"same_direction"}, fund_pct : {-300, 0, 300}, quotes : ProxyQuoteLists]


(* nav_fetch.py: the GET with retries and the fund rows built on it *)

\* choices explored for the `retries` of http_get: 1..MaxRetries
MaxRetries == 3
\* the defaults of http_get: retries=3, timeout=8 (seconds)
DefaultRetries == 3
HttpTimeout == 8
\* what one requests.get can come to: a response with status 200, a response
\* with another status, an exception (timeout, connection error)
HttpOutcomes == {"200", "500", "exc"}

\* one request more than `retries`
MoreAttemptsBug(i, retries) == i <= retries
\* `for i in range(retries)`: whether the loop body runs for i
MoreAttempts(i, retries) == i < retries

\* the loop of http_get from i on.  outcomes[k] is what the k-th request
\* would come to; slept: the seconds of time.sleep so far.  Gives whether
\* the function raises, the last error, and the requests issued.
RECURSIVE HttpLoop(_, _, _, _, _)
HttpLoop(i, last_err, slept, outcomes, retries) ==
    IF ~MoreAttempts(i, retries)
    THEN [raised |-> TRUE, err |-> last_err, requests |-> i, slept |-> slept]
    ELSE IF outcomes[i + 1] = "200"
    THEN [raised |-> FALSE, err |-> "none", requests |-> i + 1, slept |-> slept]
    ELSE HttpLoop(i + 1, outcomes[i + 1], slept + 1 + i, outcomes, retries)
http_get(outcomes, retries) == HttpLoop(0, "none", 0, outcomes, retries)

\* FUNDS of nav_fetch.py, by code
FUNDS == <<"022364", "006502", "018956">>
\* what the endpoint does for one fund: the outcomes of the requests, and
\* the body of a 200 response: a list with a row, no row, or no JSON
FundSourceAnswers ==
    [outcomes : {<<"200", "200", "200", "200">>, <<"500", "exc", "200", "200">>,
                 <<"500", "exc", "500", "200">>, <<"exc", "exc", "exc", "exc">>},
     body : {"row", "empty", "notjson"}]

\* None, or the item with its source
fetch_fund_latest_from_eastmoney(answer) ==
    IF http_get(answer.outcomes, DefaultRetries).raised THEN None
    ELSE IF answer.body = "row" THEN Some([source |-> "eastmoney_api"])
    ELSE None

\* one row per fund of FUNDS, in order
build_fund_rows(answers) ==
    [i \in DOMAIN FUNDS |->
        LET item == fetch_fund_latest_from_eastmoney(answers[i])
        IN  IF item.some
            THEN [code |-> FUNDS[i], source |-> item.v.source]
            ELSE [code |-> FUNDS[i], source |-> "fetch_error"]]

HttpArgs ==
    [fn : {"http_get"}, retries : 1..MaxRetries,
     outcomes : [1..(MaxRetries + 1) -> HttpOutcomes]]
RowsArgs ==
    [fn : {"build_fund_rows"}, answers : [DOMAIN FUNDS -> FundSourceAnswers]]


(* fund_selector.py: the four sub-scores of a candidate row.  Scores are    *)
(* counted in sixtieths of a point, returns (m1, w1, day, ...) and years in *)
(* whole units, fee_total in tenths of a percent, so that every quotient of *)
(* the code is a whole number.  score_total is taken before its round().    *)

\* sixtieths in a point
Pt == 60

score_manager(years) ==
    IF ~years.some THEN 8 * Pt
    ELSE IF years.v < 1 THEN 10 * Pt
    ELSE IF years.v < 3 THEN 14 * Pt
    ELSE IF years.v < 5 THEN 17 * Pt
    ELSE 20 * Pt

score_product(scale_bil, fee_total) ==
    LET sc_scale == IF ~scale_bil.some THEN 6 * Pt
                    ELSE IF 5 <= scale_bil.v /\ scale_bil.v <= 50 THEN 12 * Pt
                    ELSE IF 2 <= scale_bil.v /\ scale_bil.v < 5 THEN 9 * Pt
                    ELSE IF 50 < scale_bil.v /\ scale_bil.v <= 100 THEN 8 * Pt
                    ELSE 4 * Pt
        sc_fee == IF ~fee_total.some THEN 5 * Pt
                  ELSE IF fee_total.v <= 10 THEN 8 * Pt
                  ELSE IF fee_total.v <= 15 THEN 6 * Pt
                  ELSE 3 * Pt
    IN  sc_scale + sc_fee

\* bucket of score_history: 0.4 full, 0.2 full, min(full, full * val / 20)
HistoryBucket(val, full) ==
    IF ~val.some THEN (4 * full * Pt) \div 10
    ELSE IF val.v <= 0 THEN (2 * full * Pt) \div 10
    ELSE Min2(full * Pt, (full * Pt * val.v) \div 20)
score_history(r) ==
    HistoryBucket(r.m1, 10) + HistoryBucket(r.m3, 10)
        + HistoryBucket(r.m6, 6) + HistoryBucket(r.y1, 4)

\* bucket of score_outlook: 0.4 full, max(0, min(full, full * val / 15))
OutlookBucket(val, full) ==
    IF ~val.some THEN (4 * full * Pt) \div 10
    ELSE Max2(0, Min2(full * Pt, (full * Pt * val.v) \div 15))
score_outlook(r) ==
    OutlookBucket(r.w1, 12) + OutlookBucket(r.m1, 14)
        + (IF ~r.day.some THEN (8 * Pt) \div 10
           ELSE Max2(-2 * Pt, Min2(2 * Pt, (r.day.v * Pt) \div 2)))

score_row(r) ==
    [score_mgr |-> score_manager(r.manager_years),
     score_prod |-> score_product(r.scale_bil, r.fee_total),
     score_hist |-> score_history(r),
     score_outlook |-> score_outlook(r),
     score_total |-> score_manager(r.manager_years) + score_product(r.scale_bil, r.fee_total)
                         + score_history(r) + score_outlook(r)]

\* None or one of the values vs
Opt(vs) == {None} \cup {Some(v) : v \in vs}
\* candidate rows: values missing, negative, moderate and large
ScoreArgs ==
    [fn : {"score_row"},
     manager_years : Opt({0, 30}), scale_bil : Opt({30, 2000}), fee_total : Opt({10, 30}),
     m1 : Opt({-50, 10, 1000}), m3 : Opt({-50, 1000}),
     m6 : {Some(-50), Some(1000)}, y1 : {Some(-50), Some(1000)},
     w1 : Opt({-50, 1000}), day : Opt({-50, 1000})]

FunctionArgs ==
    EtfReadArgs \cup ClockArgs \cup TradingArgs \cup FundReadArgs \cup DirectionArgs
    \cup HttpArgs \cup RowsArgs \cup ScoreArgs

InitFunctions ==
    /\ \E c \in Configs :
          /\ c.INTRADAY_ONLY /\ c.FUND_INTRADAY /\ c.ETF_INTRADAY
          /\ c.FUND_CONFIRM_ROUNDS = 1 /\ Len(c.FUND_CODES) = 1
          /\ InitPass(c)
    /\ \E a \in FunctionArgs : arg = Some(a)
    /\ ret = None
    /\ peer = PeerIdle

\* minutes_since_open(ts)
ApplyClock ==
    /\ arg.some /\ arg.v.fn = "minutes_since_open" /\ ~ret.some
    /\ ret' = Some(minutes_since_open(arg.v.tz, arg.v.ts))
    /\ UNCHANGED <<pass_vars, arg, peer>>

\* one iteration of etf_intraday_check for 512810 on the empty state, with
\* the quote given by arg
ApplyEtfRead ==
    /\ arg.some /\ arg.v.fn = "etf_read" /\ ~ret.some
    /\ LET a == arg.v
           date == DateOf(a.ts)
           q == fetch_sina_quote(Some([name |-> <<"etf">>, price |-> a.price,
                                       preclose |-> 7000, high |-> 7270,
                                       volume_hand |-> a.volume_hand]))
           r == EtfEvaluate(EtfSetDefaults(EmptyDict, date), date, a.tz, a.ts,
                            "512810", q, a.ts - UtcOffset, a.ts - UtcOffset)
       IN  ret' = Some([branch |-> r.branch, qual |-> r.qual, hit |-> r.hit])
    /\ UNCHANGED <<pass_vars, arg, peer>>

\* within_trading_time(ts)
ApplyTrading ==
    /\ arg.some /\ arg.v.fn = "within_trading_time" /\ ~ret.some
    /\ ret' = Some(within_trading_time(arg.v.intraday_only, arg.v.tz, arg.v.ts))
    /\ UNCHANGED <<pass_vars, arg, peer>>

\* one iteration of fund_intraday_check for 006502 on the empty state,
\* FUND_CONFIRM_ROUNDS = 1, with the estimate and the proxy quote given by arg
ApplyFundRead ==
    /\ arg.some /\ arg.v.fn = "fund_read" /\ ~ret.some
    /\ LET a == arg.v
           wall == MinutesPerDay + 10 * 60
           date == DateOf(wall)
           w == FUND_WATCH["006502"]
           est == fetch_fund_estimate(
                      Some([name |-> w.expect_name \o <<"A">>, pct |-> a.pct,
                            gztime |-> IF a.age.some THEN Some(wall - a.age.v) ELSE None]),
                      w.expect_name, a.tz, wall)
           r == FundEvaluate(FundSetDefaults(EmptyDict, date), date, "006502", est,
                             ProxyPct(a.quotes), wall - UtcOffset, wall - UtcOffset, 1)
       IN  ret' = Some([branch |-> r.branch, qual |-> r.qual, hit |-> r.hit])
    /\ UNCHANGED <<pass_vars, arg, peer>>

\* proxy_pct and ok_dir of fund_intraday_check
ApplyDirection ==
    /\ arg.some /\ arg.v.fn = "same_direction" /\ ~ret.some
    /\ ret' = Some(same_direction(arg.v.fund_pct, ProxyPct(arg.v.quotes)))
    /\ UNCHANGED <<pass_vars, arg, peer>>

\* http_get(url, retries=...)
ApplyHttpGet ==
    /\ arg.some /\ arg.v.fn = "http_get" /\ ~ret.some
    /\ ret' = Some(http_get(arg.v.outcomes, arg.v.retries))
    /\ UNCHANGED <<pass_vars, arg, peer>>

\* build_fund_rows()
ApplyBuildRows ==
    /\ arg.some /\ arg.v.fn = "build_fund_rows" /\ ~ret.some
    /\ ret' = Some(build_fund_rows(arg.v.answers))
    /\ UNCHANGED <<pass_vars, arg, peer>>

\* score_row(r)
ApplyScore ==
    /\ arg.some /\ arg.v.fn = "score_row" /\ ~ret.some
    /\ ret' = Some(score_row(arg.v))
    /\ UNCHANGED <<pass_vars, arg, peer>>

NextFunctions ==
    \/ ApplyScore
    \/ ApplyClock
    \/ ApplyEtfRead
    \/ ApplyTrading
    \/ ApplyFundRead
    \/ ApplyDirection
    \/ ApplyHttpGet
    \/ ApplyBuildRows
SpecFunctions == InitFunctions /\ [][NextFunctions]_vars

\* the minutes of 09:30-11:30 and 13:00-15:00 that have elapsed at minute hm
\* of the day
ElapsedSessionMinutes(hm) ==
    Min2(Max2(hm - (9 * 60 + 30), 0), 120) + Min2(Max2(hm - 13 * 60, 0), 120)

(* C13: an ETF read whose cumulative volume exceeds VOL_MULT times the      *)
(* volume expected so far (average daily volume x elapsed minutes / 240)    *)
(* qualifies, even with its retracement outside the band.  The average      *)
(* daily volume is the 1,000,000 of the spec's scenario.                    *)
C13_VolumeBreakoutQualifies ==
    (arg.some /\ arg.v.fn = "etf_read" /\ ret.some) =>
        LET elapsed == ElapsedSessionMinutes(HourMinute(arg.v.ts))
        IN  (arg.v.volume_hand * 240 * 10 > VOL_MULT * 1000000 * elapsed)
                => ret.v.qual = "yes"

(* C14: for every hour and minute of the day, minutes_since_open returns    *)
(* the minutes of 09:30-11:30 and 13:00-15:00 elapsed at that time; the     *)
(* result is within 0..240 and never smaller than at an earlier minute.     *)
C14_MinutesSinceOpenExact ==
    (arg.some /\ arg.v.fn = "minutes_since_open" /\ ret.some) =>
        LET hm == HourMinute(arg.v.ts)
        IN  /\ ret.v = ElapsedSessionMinutes(hm)
            /\ ret.v \in 0..240
            /\ \A earlier \in 0..hm :
                  minutes_since_open(arg.v.tz, arg.v.ts - hm + earlier) <= ret.v

----------------------------------------------------------------------------
(* The trading-time gate.  SpecWeek: passes at 02:00, 10:00 and 23:59 of a  *)
(* Friday and at 10:00 of the Saturday, with and without zoneinfo, with     *)
(* INTRADAY_ONLY set and unset.                                             *)
WeekConfigs ==
    {c \in Environments :
        /\ ~c.SCTKEY /\ c.SCHEDULE = "week" /\ c.FUND_BUY_RATIO = 10
        /\ c.FUND_INTRADAY /\ c.ETF_INTRADAY /\ c.FUND_CONFIRM_ROUNDS = 1
        /\ Len(c.FUND_CODES) = 1 /\ c.WATCH_ETF = WATCH_ETF}
InitWeek == \E c \in WeekConfigs : InitIn(c)
SpecWeek == InitWeek /\ [][Next]_vars

\* Beijing wall-clock time `wall` is outside trading time: a weekend, or a
\* weekday outside 09:20-11:35 and 12:55-15:10
OutsideTradingTime(wall) ==
    \/ Weekday(wall) >= 5
    \/ ~ \/ (9 * 60 + 20 <= HourMinute(wall) /\ HourMinute(wall) <= 11 * 60 + 35)
         \/ (12 * 60 + 55 <= HourMinute(wall) /\ HourMinute(wall) <= 15 * 60 + 10)

(* C15: with INTRADAY_ONLY=1 a pass outside trading time emits no Hit and   *)
(* leaves confirmCount, cooldownUntil and fired tags of every instrument    *)
(* unchanged; with INTRADAY_ONLY=0 every enabled check evaluates its        *)
(* instruments at any time of day.                                          *)
C15_OutsideTradingTimeIsInert ==
    /\ (cfg.INTRADAY_ONLY /\ pc \in {"fund", "save"} /\ etf_cn # 0
            /\ OutsideTradingTime(etf_cn))
          => (etf_hits = <<>> /\ \A i \in Instruments \ Funds : Untouched(i))
    /\ (cfg.INTRADAY_ONLY /\ pc = "save" /\ fund_cn # 0 /\ OutsideTradingTime(fund_cn))
          => (fund_hits = <<>> /\ \A i \in Funds : Untouched(i))
    /\ (~cfg.INTRADAY_ONLY /\ pc \in {"fund", "save"} /\ cfg.ETF_INTRADAY)
          => \A i \in Instruments \ Funds : Evaluated(i)
    /\ (~cfg.INTRADAY_ONLY /\ pc = "save" /\ cfg.FUND_INTRADAY)
          => \A i \in Funds : Evaluated(i)

----------------------------------------------------------------------------
(* Failures around a pass.  An exception that leaves main() reaches the     *)
(* handler of the entry point, which prints it and lets the process end     *)
(* normally.                                                                *)

\* `except Exception as e: print("[ERROR]", repr(e))`, not re-raised
Handler ==
    /\ pc = "raised"
    /\ printed' = "ERROR"
    /\ status' = 0
    /\ EndOfPass
    /\ UNCHANGED <<cfg, now, file, emitted, run, trace, arg, ret, peer>>

\* the most Hits of one tag and date after which the state file is still
\* tampered with
MaxRepeats == 2

\* between two passes the state file is removed, cut short, or replaced by
\* JSON text that is no object
Corrupt ==
    /\ pc = "idle"
    /\ \A k \in DOMAIN emitted : emitted[k] < MaxRepeats
    /\ file' \in {Missing, Unparseable, FileOf(NotADict)} \ {file}
    /\ UNCHANGED <<cfg, now, pc, st, etf_cn, fund_cn, etf_hits, fund_hits, results,
                   alerts, emitted, run, trace, printed, status, arg, ret, peer>>

CorruptConfigs ==
    {c \in Configs : c.FUND_CONFIRM_ROUNDS = 1 /\ Len(c.FUND_CODES) = 1}
InitCorrupt == \E c \in CorruptConfigs : InitIn(c)
NextCorrupt == Next \/ Handler \/ Corrupt
SpecCorrupt == InitCorrupt /\ [][NextCorrupt]_vars

\* STATE_FILE is missing, or its content is unparseable or no mapping
MissingOrCorrupt(f) == ~f.exists \/ ~f.json \/ ~IsMapping(f.data)

(* C16: a pass whose state file is missing or corrupt starts from the empty *)
(* state, goes through both checks and the save, and does not end in an     *)
(* error.                                                                   *)
C16_CorruptStateIsColdStart ==
    /\ (pc = "etf" /\ MissingOrCorrupt(file)) => (IsMapping(st) /\ DOMAIN st = {})
    /\ pc # "raised"
    /\ (pc = "idle" /\ trace # <<>>) =>
          trace = <<"load_state", "etf_intraday_check", "fund_intraday_check",
                    "save_state">>

----------------------------------------------------------------------------
(* SpecPush: a push key is configured and every POST may be lost.  Two ETFs *)
(* and one fund are watched.                                                *)
PushConfigs ==
    {c \in Environments :
        /\ c.TZ /\ c.SCTKEY /\ c.SCHEDULE = "nights" /\ c.FUND_BUY_RATIO = 10
        /\ c.INTRADAY_ONLY /\ c.FUND_INTRADAY /\ c.ETF_INTRADAY
        /\ c.FUND_CONFIRM_ROUNDS = 1
        /\ Len(c.FUND_CODES) = 1 /\ Len(c.WATCH_ETF) = 2}
InitPush == \E c \in PushConfigs : InitIn(c)
SpecPush == InitPush /\ [][Next]_vars

\* every Hit emitted so far is recorded in state dict s under its date
Recorded(s) ==
    \A k \in DOMAIN emitted : k[1] \in Range(FiredOn(s, k[2]))
\* the alerts of the running pass that name instrument i
AlertsFor(i) ==
    {j \in DOMAIN alerts : alerts[j].kind = i.kind /\ i.code \in Range(alerts[j].codes)}

----------------------------------------------------------------------------
(* SpecDisk: the write of STATE_FILE may fail.  save_state has no handler:  *)
(* the OSError of write_text leaves main() and reaches the handler of the   *)
(* entry point.  write_text opens the file for writing, which empties it,   *)
(* before it writes: a failed write leaves the old text (the open failed)   *)
(* or a text cut short.                                                     *)
SaveFails ==
    /\ pc = "save"
    /\ \A k \in DOMAIN emitted : emitted[k] < MaxRepeats
    /\ file' \in {file, Unparseable}
    /\ trace' = Append(trace, "save_state")
    /\ pc' = "raised"
    /\ UNCHANGED <<cfg, now, st, etf_cn, fund_cn, etf_hits, fund_hits, results,
                   alerts, emitted, run, printed, status, arg, ret, peer>>

DiskConfigs ==
    {c \in Environments :
        /\ c.TZ /\ c.SCTKEY /\ c.SCHEDULE = "nights" /\ c.FUND_BUY_RATIO = 10
        /\ c.INTRADAY_ONLY /\ c.FUND_CONFIRM_ROUNDS = 1
        /\ Len(c.FUND_CODES) = 1 /\ c.WATCH_ETF = WATCH_ETF}
InitDisk == \E c \in DiskConfigs : InitIn(c)
NextDisk == Next \/ SaveFails \/ Handler
SpecDisk == InitDisk /\ [][NextDisk]_vars

\* the pass that just ended stopped in save_state
SaveFailed ==
    /\ pc = "idle" /\ printed = "ERROR"
    /\ trace # <<>> /\ trace[Len(trace)] = "save_state"

(* C18: a pass whose state write failed ends in an outcome that its caller  *)
(* can tell from the outcome of a successful pass: the process does not     *)
(* exit with the status of success.                                         *)
C18_SaveFailureSurfaced == SaveFailed => status # 0

(* C19: when the state write of a pass fails, every alert the pass sent has *)
(* its fired tag of the day and its cooldownUntil in the state file all the *)
(* same, so that the next pass loads them.                                  *)
C19_DispatchedAlertsPersisted ==
    pc = "raised" =>
        \A i \in Instruments :
            (\E j \in AlertsFor(i) : alerts[j].post = "sent") =>
                /\ Today(i) \in FiredDates(load_state(file), i)
                /\ CooldownOfI(load_state(file), i) = EvalTime(i) + CooldownDuration(i)


\* the calls of main() in their order
PassCalls == <<"load_state", "etf_intraday_check", "fund_intraday_check", "save_state">>

(* C20: every pass calls load_state once before the checks and save_state   *)
(* once after etf_intraday_check and then fund_intraday_check: the calls    *)
(* made so far are always a prefix of that order, and those of a pass that  *)
(* has ended are the whole of it.                                           *)
C20_ReadOnceWriteOnce ==
    /\ Len(trace) <= Len(PassCalls)
    /\ trace = SubSeq(PassCalls, 1, Len(trace))
    /\ pc = "etf" => Len(trace) = 1
    /\ pc = "fund" => Len(trace) = 2
    /\ pc = "save" => Len(trace) = 3
    /\ (pc = "idle" /\ trace # <<>>) => trace = PassCalls

----------------------------------------------------------------------------
(* SpecOverlap: the scheduler starts a second process of check_once.py      *)
(* while the first is between its load_state and its save_state.  Both work *)
(* on their own dict; STATE_FILE is all they share, and nothing locks it.   *)

\* second invocations explored in one behaviour
MaxOverlaps == 1

\* st = load_state() of the second invocation
PeerLoad ==
    /\ pc \in {"etf", "fund", "save"}
    /\ peer.pc = "idle"
    /\ peer.ran < MaxOverlaps
    /\ peer' = [pc |-> "loaded", st |-> load_state(file), ran |-> peer.ran + 1]
    /\ UNCHANGED <<pass_vars, arg, ret>>

\* etf_intraday_check(st), then fund_intraday_check(st), of the second
\* invocation, on its own dict
PeerCheck ==
    /\ peer.pc = "loaded"
    /\ LET wall == now_cn(now)
           codes == cfg.FUND_CODES
           open == within_trading_time(cfg.INTRADAY_ONLY, cfg.TZ, wall)
       IN  \E answers \in [DOMAIN cfg.WATCH_ETF -> SinaAnswers],
              posts \in [DOMAIN cfg.WATCH_ETF -> PostOutcomes(cfg.SCTKEY)],
              fanswers \in [DOMAIN codes -> UNION {FundAnswers(c, wall) : c \in Range(codes)}],
              quotes \in ProxyQuoteChoices(codes) :
             /\ \A i \in DOMAIN codes : fanswers[i] \in FundAnswers(codes[i], wall)
             /\ \E e \in {IF cfg.ETF_INTRADAY /\ open
                          THEN EtfLoop(1, [st |-> EtfSetDefaults(peer.st, DateOf(wall)),
                                           hits |-> <<>>, results |-> EmptyDict,
                                           alerts |-> <<>>, emitted |-> emitted,
                                           raised |-> FALSE],
                                       cfg.WATCH_ETF, answers, cfg.TZ, wall, now,
                                       cfg.SCTKEY, posts)
                          ELSE [st |-> peer.st, emitted |-> emitted]} :
                  \E f \in {IF cfg.FUND_INTRADAY /\ open
                            THEN FundLoop(1, [st |-> FundSetDefaults(e.st, DateOf(wall)),
                                             hits |-> <<>>, results |-> EmptyDict,
                                             emitted |-> e.emitted, run |-> EmptyDict],
                                         codes, fanswers, quotes, cfg.TZ, wall, now,
                                         cfg.FUND_CONFIRM_ROUNDS)
                            ELSE [st |-> e.st, emitted |-> e.emitted]} :
                      /\ peer' = [peer EXCEPT !.pc = "checked", !.st = f.st]
                      /\ emitted' = f.emitted
    /\ UNCHANGED <<cfg, now, file, pc, st, etf_cn, fund_cn, etf_hits, fund_hits,
                   results, alerts, run, trace, printed, status, arg, ret>>

\* save_state(st) of the second invocation, and its end
PeerSave ==
    /\ peer.pc = "checked"
    /\ file' = save_state(peer.st)
    /\ peer' = [peer EXCEPT !.pc = "idle", !.st = EmptyDict]
    /\ UNCHANGED <<cfg, now, pc, st, etf_cn, fund_cn, etf_hits, fund_hits, results,
                   alerts, emitted, run, trace, printed, status, arg, ret>>

OverlapConfigs ==
    {c \in Configs :
        /\ c.INTRADAY_ONLY /\ c.FUND_INTRADAY /\ c.ETF_INTRADAY
        /\ c.FUND_CONFIRM_ROUNDS = 1 /\ Len(c.FUND_CODES) = 1}
InitOverlap == \E c \in OverlapConfigs : InitIn(c)
NextOverlap == Next \/ PeerLoad \/ PeerCheck \/ PeerSave
SpecOverlap == InitOverlap /\ [][NextOverlap]_vars

(* C21: overlapping invocations break the at-most-one-Hit-per-(instrument,  *)
(* date) guarantee, and nothing else does: two Hits for one tag and date    *)
(* exist only once a second invocation has run beside the first.  The       *)
(* witness is the violation itself: both passes emitted the Hit of the ETF  *)
(* on one date, and the save that came later has wiped the fired tag and    *)
(* the cooldownUntil that the earlier pass had saved for the fund.          *)
C21_DuplicateHitOnlyUnderOverlap ==
    /\ [](\A k \in DOMAIN emitted : emitted[k] > 1 => peer.ran > 0)
    /\ [][file' # file =>
             \/ pc = "save" /\ file' = save_state(st)
             \/ peer.pc = "checked" /\ file' = save_state(peer.st)]_vars

C21_Witness ==
    /\ pc = "idle" /\ peer.pc = "idle" /\ peer.ran > 0
    /\ \E d \in {DateOf(now_cn(now))} :
          /\ Count(emitted, EtfTag("512810"), d) = 2
          /\ Count(emitted, FundTag("006502"), d) = 1
          /\ EtfTag("512810") \in Range(FiredOn(load_state(file), d))
          /\ FundTag("006502") \notin Range(FiredOn(load_state(file), d))
          /\ FundCooldownOf(load_state(file), FundKey("006502")) = 0


----------------------------------------------------------------------------
(* C22: the funds and the ETFs evaluated in one pass are checked against    *)
(* and recorded under one calendar date: when both checks of a pass have    *)
(* read the clock, they have read the same date, and the Hits of the pass   *)
(* are all in the fired list of that date.                                  *)
C22_OneDatePerPass ==
    (pc = "save" /\ etf_cn # 0 /\ fund_cn # 0) =>
        /\ DateOf(etf_cn) = DateOf(fund_cn)
        /\ \A i \in Instruments : HitCount(i) > 0 => DateOf(etf_cn) \in FiredDates(st, i)


----------------------------------------------------------------------------
(* Indicators, as the specification defines them *)

\* low <= (price / ref - 1) * 100 <= high, in units of 0.01 %, ref > 0
RetracementInBand(price, ref, low, high) ==
    (price - ref) * 10000 >= low * ref /\ (price - ref) * 10000 <= high * ref
\* the available quotes of a proxy list, their number and the sum of their pct
Available(quotes) == SelectSeq(quotes, LAMBDA q : q.some)
PctSum(quotes) == SumSeq([i \in DOMAIN Available(quotes) |-> Available(quotes)[i].v.pct])
\* direction agreement against the mean pct of the available proxies: none
\* configured or none available, same sign, or a mean below 0.05 % in
\* magnitude (mean = sum / number, compared without dividing)
DirectionAgrees(fund_pct, quotes) ==
    \/ Available(quotes) = <<>>
    \/ (fund_pct > 0 /\ PctSum(quotes) > 0)
    \/ (fund_pct < 0 /\ PctSum(quotes) < 0)
    \/ Abs(PctSum(quotes)) < 5 * Len(Available(quotes))

(* C23: a read qualifies by the band path exactly when its retracementPct,  *)
(* (price / referenceHigh - 1) x 100 with the session high standing in for  *)
(* a reference high that is not configured, lies in the band, ends          *)
(* included, and the direction agrees: for the fund read (band of           *)
(* FUND_WATCH, no reference high configured) and for the ETF read           *)
(* (DRAW_MIN..DRAW_MAX, REF_HIGH_512810).                                   *)
C23_BandPathQualifies ==
    /\ (arg.some /\ arg.v.fn = "fund_read" /\ ret.some
            /\ ret.v.branch \notin {"stale", "no_est_or_name_mismatch"}) =>
          (ret.v.qual = "yes" <=>
              /\ RetracementInBand(arg.v.gsz, arg.v.high,
                                   FUND_WATCH["006502"].pullback_band[1],
                                   FUND_WATCH["006502"].pullback_band[2])
              /\ DirectionAgrees(arg.v.pct, arg.v.quotes))
    /\ (arg.some /\ arg.v.fn = "etf_read" /\ ret.some) =>
          (ret.v.qual = "yes" <=>
              RetracementInBand(arg.v.price, REF_HIGH, DRAW_MIN, DRAW_MAX))


(* C24: a fund estimate is discarded as stale exactly when its age exceeds  *)
(* the lesser of the fund's fresh_min and FUND_EST_FRESH_SEC, both in       *)
(* seconds, or when its gztime cannot be parsed; a stale estimate emits no  *)
(* Hit.                                                                     *)
C24_StaleExactlyBeyondLimit ==
    (arg.some /\ arg.v.fn = "fund_read" /\ ret.some) =>
        /\ ret.v.branch = "stale" <=>
              \/ ~arg.v.age.some
              \/ arg.v.age.v * 60 > Min2(FUND_WATCH["006502"].fresh_min * 60,
                                         FUND_EST_FRESH_SEC)
        /\ ret.v.branch = "stale" => ~ret.v.hit

(* C25, as stated: the direction agrees exactly when no proxy is configured *)
(* or available, or the fund's change and the mean change of the available  *)
(* proxies have the same sign, or that mean is below 0.05 % in magnitude.   *)
C25_DirectionAgreement_AsStated ==
    (arg.some /\ arg.v.fn = "same_direction" /\ ret.some) =>
        (ret.v <=> DirectionAgrees(arg.v.fund_pct, arg.v.quotes))

(* C25, amended: the direction agrees exactly in the cases above or when    *)
(* the fund's own change is zero.                                           *)
C25_DirectionAgreement ==
    (arg.some /\ arg.v.fn = "same_direction" /\ ret.some) =>
        (ret.v <=> (arg.v.fund_pct = 0 \/ DirectionAgrees(arg.v.fund_pct, arg.v.quotes)))

\* a flat fund agrees with proxies that moved by 1.2 % on average, one of
\* two proxies being unavailable
C25_Witness ==
    /\ arg.some /\ arg.v.fn = "same_direction" /\ ret.some
    /\ arg.v.fund_pct = 0
    /\ arg.v.quotes = <<None, Some([pct |-> 120])>>
    /\ ret.v

(* C26: within_trading_time and minutes_since_open, applied to the datetime *)
(* of now_cn(), judge the Beijing wall-clock time, and give the same result *)
(* with zoneinfo (TZ set) and with the +8 h fallback (TZ is None).          *)
C26_FallbackSameAsZoneinfo ==
    /\ (arg.some /\ arg.v.fn = "within_trading_time" /\ ret.some) =>
          /\ ret.v = ~OutsideTradingTime(arg.v.ts)
          /\ ret.v = within_trading_time(arg.v.intraday_only, ~arg.v.tz, arg.v.ts)
    /\ (arg.some /\ arg.v.fn = "minutes_since_open" /\ ret.some) =>
          /\ ret.v = ElapsedSessionMinutes(HourMinute(arg.v.ts))
          /\ ret.v = minutes_since_open(~arg.v.tz, arg.v.ts)


\* the requests among the first n that come to a response with status 200
Successes(outcomes, n) == {k \in 1..n : outcomes[k] = "200"}

(* C27: for retries >= 1, http_get issues at most `retries` requests, each  *)
(* with the timeout, and sleeps a bounded time between them, so it ends     *)
(* within retries x timeout + 1 + ... + retries seconds; it returns at the  *)
(* first response with status 200 and issues no request after it; after    *)
(* `retries` failures it raises the last error.  build_fund_rows turns a    *)
(* raised fetch into a 'fetch_error' row and goes on: it returns one row    *)
(* per fund, in order.                                                      *)
C27_HttpGetBoundedRetries ==
    /\ (arg.some /\ arg.v.fn = "http_get" /\ ret.some) =>
          LET n == arg.v.retries
              ok == Successes(arg.v.outcomes, n)
          IN  /\ ret.v.requests \in 1..n
              /\ ret.v.requests * HttpTimeout + ret.v.slept
                    <= n * HttpTimeout + (n * (n + 1)) \div 2
              /\ ok # {} => /\ ~ret.v.raised
                            /\ ret.v.requests \in ok
                            /\ \A k \in ok : ret.v.requests <= k
              /\ ok = {} => /\ ret.v.raised
                            /\ ret.v.requests = n
                            /\ ret.v.err = arg.v.outcomes[n]
    /\ (arg.some /\ arg.v.fn = "build_fund_rows" /\ ret.some) =>
          /\ DOMAIN ret.v = DOMAIN FUNDS
          /\ \A i \in DOMAIN FUNDS :
                /\ ret.v[i].code = FUNDS[i]
                /\ Successes(arg.v.answers[i].outcomes, DefaultRetries) = {}
                      => ret.v[i].source = "fetch_error"
                /\ ret.v[i].source = "fetch_error" <=>
                      \/ Successes(arg.v.answers[i].outcomes, DefaultRetries) = {}
                      \/ arg.v.answers[i].body # "row"

\* the three requests for the first fund fail, its row is a fetch_error row,
\* and the rows of the second and the third fund are built from their data
C27_Witness ==
    /\ arg.some /\ arg.v.fn = "build_fund_rows" /\ ret.some
    /\ arg.v.answers[1].outcomes = <<"500", "exc", "500", "200">>
    /\ ret.v[1].source = "fetch_error"
    /\ ret.v[2].source = "eastmoney_api"
    /\ ret.v[3].source = "eastmoney_api"


(* C28: for every candidate row the manager score is in 0..20, the product  *)
(* score in 0..20, the history score in 0..30, the outlook score in 0..30,  *)
(* and the total in 0..100.                                                 *)
C28_ScoresWithinRange ==
    (arg.some /\ arg.v.fn = "score_row" /\ ret.some) =>
        /\ ret.v.score_mgr \in 0..(20 * Pt)
        /\ ret.v.score_prod \in 0..(20 * Pt)
        /\ ret.v.score_hist \in 0..(30 * Pt)
        /\ ret.v.score_outlook \in 0..(30 * Pt)
        /\ ret.v.score_total \in 0..(100 * Pt)


----------------------------------------------------------------------------
(* C29: in the state a pass works on and in the state on file, a fund whose *)
(* cooldownUntil lies in the future has confirmCount 0, and an instrument   *)
(* has a cooldownUntil only if a Hit was emitted for it.                    *)
C29_CooldownOnlyByHit ==
    \A i \in Instruments : \A s \in {Pre, st} :
        /\ (i.kind = "fund" /\ CooldownOfI(s, i) > now) => CountOfI(s, i) = 0
        /\ CooldownOfI(s, i) # 0 => \E k \in DOMAIN emitted : k[1] = TagOf(i)

\* a fund is read again while its cooldown runs: the read qualifies, and the
\* count stays 0
C29_Witness ==
    /\ pc = "save"
    /\ \E i \in Funds :
          /\ Evaluated(i) /\ Outcome(i).branch = "cooldown" /\ Outcome(i).qual = "yes"
          /\ CooldownOfI(st, i) > now
          /\ CountOfI(st, i) = 0
          /\ \E k \in DOMAIN emitted : k[1] = TagOf(i)

\* the step leaves confirmCount, cooldownUntil and fired dates of i alone
SameAfter(i) ==
    /\ CountOfI(st', i) = CountOfI(st, i)
    /\ CooldownOfI(st', i) = CooldownOfI(st, i)
    /\ FiredDates(st', i) = FiredDates(st, i)

(* C30: the ETF check changes no fund's state and the fund check no ETF's;  *)
(* within a check, an instrument whose own read is skipped (fetch failure,  *)
(* stale estimate, cooldown) or makes no change (ETF without Hit) keeps its *)
(* state whatever happens to the others; and a qualifying read is           *)
(* suppressed only by the instrument's own tag, never by another            *)
(* instrument's Hit of the same date.                                       *)
C30_InstrumentsAreIndependent ==
    /\ [][\A i \in Instruments :
            /\ (pc = "etf" /\ i.kind = "fund") => SameAfter(i)
            /\ (pc = "fund" /\ i.kind = "etf") => SameAfter(i)
            /\ (pc = "etf" /\ pc' = "fund" /\ i.kind = "etf" /\ KeyOf(i) \in DOMAIN results'
                    /\ results'[KeyOf(i)].branch # "hit") => SameAfter(i)
            /\ (pc = "fund" /\ pc' = "save" /\ i.kind = "fund" /\ KeyOf(i) \in DOMAIN results'
                    /\ results'[KeyOf(i)].branch
                          \in {"no_est_or_name_mismatch", "stale", "cooldown"}) => SameAfter(i)
         ]_vars
    /\ [](\A i \in Instruments :
            (Evaluated(i) /\ Outcome(i).branch = "suppressed") =>
                Count(emitted, TagOf(i), Today(i)) >= 1)

\* one pass, one date: the ETF and the first fund both get their Hit, and
\* the second fund, whose fetch failed, is left as it was
C30_Witness ==
    /\ pc = "save"
    /\ Len(cfg.FUND_CODES) = 2
    /\ HitCount([kind |-> "etf", code |-> "512810"]) = 1
    /\ HitCount([kind |-> "fund", code |-> "022364"]) = 1
    /\ Outcome([kind |-> "fund", code |-> "006502"]).branch = "no_est_or_name_mismatch"
    /\ Untouched([kind |-> "fund", code |-> "006502"])
    /\ DateOf(etf_cn) = DateOf(fund_cn)

====
